---- MODULE Spec2Model ----
(***************************************************************************)
(* inspector-cli: the File Registry (PDFService.load_file over the         *)
(* `documents` table and the per-collection pgvector tables) and the       *)
(* Conversational Session Manager (InspectorAgent over CacheService).      *)
(*                                                                         *)
(* Two entry points drive the services, each a process of its own with its *)
(* own InspectorAgent and CacheService: the interactive CLI                *)
(* (interactive.py) and the MCP server (mcp_server.py).  They share the    *)
(* relational store, the vector tables, the Redis backend and the scratch  *)
(* image directory.                                                        *)
(***************************************************************************)
EXTENDS Integers, Sequences, FiniteSets, TLC

VARIABLES
    documents,      \* rows of table `documents` (db/models.py File)
    index,          \* collection id -> its pgvector table (NoTable or rows)
    scratch,        \* regular files present in IMAGES_TEMP_DIR
    redis_up,       \* whether the Redis backend answers right now
    redis,          \* key -> stored entry [text, ttl], or NoKey
    redis_client,   \* per process: CacheService.redis_client ("client" or "None")
    file_sessions,  \* per process: InspectorAgent.file_sessions
    ret             \* outcome of the last call made by an entry point

vars == <<documents, index, scratch, redis_up, redis,
          redis_client, file_sessions, ret>>

registryVars == <<documents, index, scratch>>
agentVars    == <<redis_up, redis, redis_client, file_sessions>>

(***************************************************************************)
(* Bounds of the model.                                                    *)
(***************************************************************************)
MaxUuid      == 2   \* distinct uuid4() values in use at once
MaxExchanges == 2   \* completed exchanges kept in one history

(***************************************************************************)
(* Paths.  A path is [dir, stem, suffix]; dir "." is a relative path.      *)
(***************************************************************************)
Cwd == "/a"

InputPaths ==
    { [dir |-> "/a",   stem |-> "x", suffix |-> ".pdf"],
      [dir |-> "../a", stem |-> "x", suffix |-> ".pdf"],
      [dir |-> "/b",   stem |-> "x", suffix |-> ".pdf"],
      [dir |-> "/a",   stem |-> "y", suffix |-> ".PDF"],
      [dir |-> "/a",   stem |-> "n", suffix |-> ".txt"] }

NoPath == [dir |-> "", stem |-> "", suffix |-> ""]
NoName == [stem |-> "", suffix |-> ""]

\* Path.absolute(): a relative path is joined to the working directory;
\* nothing is normalised, ".." components stay.
absolute(path) ==
    CASE path.dir = "."    -> [path EXCEPT !.dir = Cwd]
      [] path.dir = "../a" -> [path EXCEPT !.dir = "/a/../a"]
      [] OTHER             -> path

\* Path.name: the last component.
name(path) == [stem |-> path.stem, suffix |-> path.suffix]

\* str.lower() on the suffixes in use.
lower(s) ==
    CASE s = ".PDF" -> ".pdf"
      [] s = ".Pdf" -> ".pdf"
      [] s = ".TXT" -> ".txt"
      [] OTHER      -> s

\* What a PDF on disk may hold when it is read: its page count and, with
\* it, its st_size.
Contents == {[pages |-> 1, st_size |-> 10], [pages |-> 2, st_size |-> 20]}

(***************************************************************************)
(* uuid4(): a value that is in use nowhere (the least such one stands for  *)
(* it).  A UUID object and its string form are different Python values     *)
(* (UUID(h) != str(UUID(h))), so an identifier carries its type; both      *)
(* format to the same text.                                                *)
(***************************************************************************)
Hex == 1..MaxUuid

\* (mutant) an identifier drawn without regard to the ones in use.
uuid4_reused(used) ==
    [type |-> "UUID", hex |-> CHOOSE h \in Hex : \A g \in Hex : h <= g]

uuid4(used) ==
    [type |-> "UUID",
     hex  |-> CHOOSE h \in Hex \ used : \A g \in Hex \ used : h <= g]
str(id)      == [type |-> "str", hex |-> id.hex]
None         == [type |-> "None", hex |-> 0]

(***************************************************************************)
(* Table `documents` (db/models.py).                                       *)
(***************************************************************************)
NoFile == [id |-> None, file_name |-> NoName, file_path |-> NoPath,
           file_size |-> 0, file_type |-> "", index_id |-> None]

\* File(...): the row load_file builds for a first ingestion; `id` is the
\* column default uuid.uuid4, drawn when the row is flushed.
File(id, path, st_size, index_id) ==
    [id        |-> id,
     file_name |-> name(path),
     file_path |-> absolute(path),
     file_size |-> st_size,
     file_type |-> "pdf",
     index_id  |-> index_id]

\* (mutant) a File model without its column constraints.
insert_unchecked(rows, r) == TRUE

\* The column constraints of File, checked by the INSERT: primary key id,
\* unique file_name, unique index_id, and the nullable=False columns.
insert_ok(rows, r) ==
    /\ r.id # None /\ r.index_id # None
    /\ r.file_name # NoName /\ r.file_path # NoPath
    /\ \A d \in rows :
          /\ d.id # r.id
          /\ d.file_name # r.file_name
          /\ d.index_id # r.index_id

\* query(File).filter(File.file_path == str(path.absolute())).first()
existing(rows, path) ==
    LET hits == {d \in rows : d.file_path = absolute(path)}
    IN  IF hits = {} THEN NoFile ELSE CHOOSE d \in hits : TRUE

\* The overwrite branch's in-place update of the row found.
update_file(existing_file, st_size) ==
    [existing_file EXCEPT !.file_size = st_size, !.file_type = "pdf"]

\* (mutant) a handler that commits where it should roll back.
rollback_keeps_pending(committed, pending) == pending

\* Session.rollback(): the pending, uncommitted changes are discarded.
rollback(committed, pending) == committed

(***************************************************************************)
(* The vector tables.  index[c] is NoTable until a build creates table     *)
(* data_llamaindex_<c>; afterwards it is the sequence of rows in it.       *)
(***************************************************************************)
NoTable == <<0>>

\* PDFService.process_pdf with image analysis off: one node per page, in
\* page order.  A node stands for its page's text; it is written as its
\* 1-based page_number (the file_path tag of its metadata is not kept).
process_pdf(file_path, pages) == [k \in 1..pages |-> k]

\* (mutant) a delete_index that leaves the rows in place.
delete_index_keeps_rows(table) == table

\* IndexService.delete_index: DELETE FROM the collection's table, then
\* commit on the shared session.  Returns the table afterwards; the
\* statement fails when the table does not exist.
delete_index_ok(table) == table # NoTable
delete_index(table) == <<>>

\* IndexService.index_nodes: the table is created if missing and the first
\* `stored` nodes are appended to whatever rows it holds; stored = Len(nodes)
\* when the build completes, fewer when the upstream call fails part-way.
index_nodes(table, nodes, stored) ==
    (IF table = NoTable THEN <<>> ELSE table) \o SubSeq(nodes, 1, stored)

(***************************************************************************)
(* The scratch image directory IMAGES_TEMP_DIR.                            *)
(***************************************************************************)
ScratchNames == {"page1_img1.png"}

\* PDFService.cleanup_temp_images: every regular file is unlinked; a file
\* whose unlink raises is logged and left behind.
cleanup_temp_images(files, stuck) == files \cap stuck

(***************************************************************************)
(* PDFService.load_file.                                                   *)
(*                                                                         *)
(* Inputs: the path as given; what the file system says of it (exists,     *)
(* st_size, pages); the answer to the re-index prompt; the step of this    *)
(* call that fails, if any; the nodes stored before a failing build gave   *)
(* up; the scratch files that cannot be unlinked.                          *)
(***************************************************************************)
Faults == {"none", "delete_execute", "delete_commit", "process_pdf",
           "index_nodes", "commit"}

Status == [ERROR |-> "error", SUCCESS |-> "success",
           OVERWRITTEN |-> "overwritten", ALREADY_EXISTS |-> "already_exists"]

NoValue == [file_id |-> None, file_name |-> NoName, file_path |-> NoPath,
            status |-> ""]

\* The dict load_file returns.
result(file, status) ==
    [file_id   |-> str(file.id),
     file_name |-> file.file_name,
     file_path |-> file.file_path,
     status    |-> status]

\* (mutant) validation without the suffix check.
validate_exists_only(path, exists) ==
    IF ~exists THEN "FileNotFoundError" ELSE "none"

\* Lines 182-186: the checks made before anything else.
validate(path, exists) ==
    IF ~exists THEN "FileNotFoundError"
    ELSE IF lower(path.suffix) # ".pdf" THEN "ValueError"
    ELSE "none"

\* (mutant) the answer to the prompt is ignored.
confirmed_always(overwrite) == TRUE

\* Line 204: whether the answer to the prompt lets the re-index go ahead.
confirmed(overwrite) == overwrite

\* (mutant) a handler that swallows the exception and returns a dict.
handler_swallows(exc, rows, pending_rows, tables, pending_tables, files, stuck) ==
    [documents |-> rollback(rows, pending_rows),
     index     |-> rollback(tables, pending_tables),
     scratch   |-> cleanup_temp_images(files, stuck),
     raised    |-> "none",
     value     |-> [NoValue EXCEPT !.status = Status.ERROR]]

\* The `except Exception` handler: rollback, scratch cleanup, re-raise.
\* `rows`/`tables` are the committed relational state, `pending_rows`/
\* `pending_tables` what the session held uncommitted when the step failed.
handler(exc, rows, pending_rows, tables, pending_tables, files, stuck) ==
    [documents |-> rollback(rows, pending_rows),
     index     |-> rollback(tables, pending_tables),
     scratch   |-> cleanup_temp_images(files, stuck),
     raised    |-> exc,
     value     |-> NoValue]

returns(rows, tables, files, value) ==
    [documents |-> rows, index |-> tables, scratch |-> files,
     raised |-> "none", value |-> value]

\* The identifiers in use: collection ids of rows and of tables that exist,
\* and row ids.
used_index_ids ==
    {d.index_id.hex : d \in documents} \cup {c \in Hex : index[c] # NoTable}
used_ids == {d.id.hex : d \in documents}

\* Lines 211-214 and 219-238: delete the collection, segment, build under
\* the same collection id, update the row in place.
reindex(existing_file, file_path, st_size, pages, fault, stored, stuck) ==
    LET c        == existing_file.index_id.hex
        deleted  == [index EXCEPT ![c] = delete_index(index[c])]
        nodes    == process_pdf(file_path, pages)
        partial  == [deleted EXCEPT ![c] = index_nodes(deleted[c], nodes, stored)]
        built    == [deleted EXCEPT ![c] = index_nodes(deleted[c], nodes, Len(nodes))]
        updated  == (documents \ {existing_file})
                        \cup {update_file(existing_file, st_size)}
        cleaned  == cleanup_temp_images(scratch, stuck)
    IN  IF fault = "delete_execute" \/ ~delete_index_ok(index[c])
          THEN handler("ProgrammingError", documents, documents,
                       index, index, scratch, stuck)
        ELSE IF fault = "delete_commit"
          THEN handler("OperationalError", documents, documents,
                       index, deleted, scratch, stuck)
        ELSE IF fault = "process_pdf"
          THEN handler("FileDataError", documents, documents,
                       deleted, deleted, scratch, stuck)
        ELSE IF fault = "index_nodes"
          THEN handler("APIError", documents, documents,
                       partial, partial, scratch, stuck)
        ELSE IF fault = "commit"
          THEN handler("OperationalError", documents, updated,
                       built, built, cleaned, stuck)
        ELSE returns(updated, built, cleaned,
                     result(update_file(existing_file, st_size),
                            Status.OVERWRITTEN))

\* Lines 216-223 and 240-257: draw a collection id, segment, build, insert.
create(file_path, st_size, pages, fault, stored, stuck) ==
    LET index_id == str(uuid4(used_index_ids))
        c        == index_id.hex
        nodes    == process_pdf(file_path, pages)
        partial  == [index EXCEPT ![c] = index_nodes(index[c], nodes, stored)]
        built    == [index EXCEPT ![c] = index_nodes(index[c], nodes, Len(nodes))]
        file_record == File(uuid4(used_ids), file_path, st_size, index_id)
        added    == documents \cup {file_record}
        cleaned  == cleanup_temp_images(scratch, stuck)
    IN  IF fault = "process_pdf"
          THEN handler("FileDataError", documents, documents,
                       index, index, scratch, stuck)
        ELSE IF fault = "index_nodes"
          THEN handler("APIError", documents, documents,
                       partial, partial, scratch, stuck)
        ELSE IF ~insert_ok(documents, file_record)
          THEN handler("IntegrityError", documents, added,
                       built, built, cleaned, stuck)
        ELSE IF fault = "commit"
          THEN handler("OperationalError", documents, added,
                       built, built, cleaned, stuck)
        ELSE returns(added, built, cleaned,
                     result(file_record, Status.SUCCESS))

\* The whole call: what it leaves behind and what it returns or raises.
load_file_outcome(file_path, exists, st_size, pages, overwrite, fault, stored, stuck) ==
    LET existing_file == existing(documents, file_path)
    IN  IF validate(file_path, exists) # "none"
          THEN handler(validate(file_path, exists), documents, documents,
                       index, index, scratch, stuck)
        ELSE IF existing_file # NoFile /\ ~confirmed(overwrite)
          THEN returns(documents, index, scratch,
                       result(existing_file, Status.ALREADY_EXISTS))
        ELSE IF existing_file # NoFile
          THEN reindex(existing_file, file_path, st_size, pages, fault, stored, stuck)
        ELSE create(file_path, st_size, pages, fault, stored, stuck)

load_file(file_path, exists, st_size, pages, overwrite, fault, stored, stuck) ==
    \E out \in {load_file_outcome(file_path, exists, st_size, pages, overwrite,
                                  fault, stored, stuck)} :
        /\ documents' = out.documents
        /\ index'     = out.index
        /\ scratch'   = out.scratch
        /\ ret' = [op |-> "load_file", raised |-> out.raised, value |-> out.value]
        /\ UNCHANGED agentVars

\* mcp_server.handle_call_tool, tool "load_pdf": the call passes a keyword
\* load_file does not take, so Python raises TypeError before the body of
\* load_file runs; handle_call_tool turns it into an error text.
load_pdf(file_path) ==
    /\ ret' = [op |-> "load_pdf", raised |-> "none",
               value |-> [NoValue EXCEPT !.status = "Error executing tool"]]
    /\ UNCHANGED <<registryVars, agentVars>>

\* The scratch directory is a directory of the file system, created at
\* import and shared with whatever else writes image files into it.
scratch_write(f) ==
    /\ f \notin scratch
    /\ scratch' = scratch \cup {f}
    /\ UNCHANGED <<documents, index, agentVars, ret>>

(***************************************************************************)
(* Processes.                                                              *)
(***************************************************************************)
Procs == {"cli", "mcp"}

(***************************************************************************)
(* CacheService over Redis.  A key is the text                             *)
(* f"agent:history:{file_id}"; a UUID and its string form format to the    *)
(* same text, so the key is written as the hex they share.  An entry is    *)
(* the text stored and the TTL it was stored with.                         *)
(***************************************************************************)
HISTORY_TTL == 7200

NoKey == [text |-> <<>>, ttl |-> 0]

\* The keys of the Redis database: the history key of each document id, and
\* (as 0) a key that is no history key.
Keys == Hex \cup {0}
OtherKeys == Keys \ Hex

_get_history_key(file_id) == file_id.hex

(***************************************************************************)
(* Python values handed to the cache and returned by it, each with its     *)
(* type: a list, a dict (a turn of a history), a str, an int, a bool.  A   *)
(* text (the value of a str, what Redis stores) is the sequence of its     *)
(* lexemes.                                                                *)
(***************************************************************************)
pylist(items) == [type |-> "list", items |-> items]
pystr(text)   == [type |-> "str", text |-> text]
pyint(n)      == [type |-> "int", n |-> n]
pybool(b)     == [type |-> "bool", b |-> b]

\* A turn of a history, as query builds it (its timestamp is not kept).
turn(role, content) == [type |-> "dict", role |-> role, content |-> content]

\* The integers that are written and read, and their decimal text.
Ints == {1, 123}
repr(n) == CASE n = 1 -> "1" [] n = 123 -> "123"
int(lexeme) == CHOOSE n \in Ints : repr(n) = lexeme

\* json.dumps of the element of a list: an object or a number.
dumps_item(item) ==
    CASE item.type = "dict" ->
            <<"{", "role", item.role, "content", item.content, "}">>
      [] item.type = "int"  -> <<repr(item.n)>>

RECURSIVE dumps_items(_)
dumps_items(items) ==
    IF items = <<>> THEN <<>>
    ELSE dumps_item(Head(items)) \o dumps_items(Tail(items))

\* json.dumps of a dict or a list: the text of an object, or of an array
\* of the texts of its elements.
dumps(value) ==
    CASE value.type = "dict" -> dumps_item(value)
      [] value.type = "list" -> <<"[">> \o dumps_items(value.items) \o <<"]">>

\* What the Redis client writes for a value that is no dict or list: a str
\* as it is, an int as its decimal text.
encode(value) ==
    CASE value.type = "str" -> value.text
      [] value.type = "int" -> <<repr(value.n)>>

\* Whether a sequence of lexemes is a sequence of JSON objects and numbers.
RECURSIVE decodes_items(_)
decodes_items(body) ==
    IF body = <<>> THEN TRUE
    ELSE IF body[1] = "{"
      THEN /\ Len(body) >= 6
           /\ body[2] = "role" /\ body[4] = "content" /\ body[6] = "}"
           /\ decodes_items(SubSeq(body, 7, Len(body)))
      ELSE /\ body[1] \in {repr(n) : n \in Ints}
           /\ decodes_items(Tail(body))

\* Whether json.loads accepts a text (it raises ValueError otherwise): a
\* number, true or false, an object, or an array.
decodes(text) ==
    /\ Len(text) > 0
    /\ \/ Len(text) = 1 /\ text[1] \in {repr(n) : n \in Ints} \cup {"true", "false"}
       \/ text[1] = "{" /\ Len(text) = 6 /\ decodes_items(text)
       \/ /\ Len(text) >= 2 /\ text[1] = "[" /\ text[Len(text)] = "]"
          /\ decodes_items(SubSeq(text, 2, Len(text) - 1))

RECURSIVE loads_items(_)
loads_items(body) ==
    IF body = <<>> THEN <<>>
    ELSE IF body[1] = "{"
      THEN <<turn(body[3], body[5])>> \o loads_items(SubSeq(body, 7, Len(body)))
      ELSE <<pyint(int(body[1]))>> \o loads_items(Tail(body))

\* json.loads of a text it accepts.
loads(text) ==
    IF text[1] = "[" THEN pylist(loads_items(SubSeq(text, 2, Len(text) - 1)))
    ELSE IF text[1] = "{" THEN turn(text[3], text[5])
    ELSE IF text[1] \in {"true", "false"} THEN pybool(text[1] = "true")
    ELSE pyint(int(text[1]))

\* Python's None where a call returns a value or None.
PyNone == [none |-> TRUE, value |-> [type |-> "NoneType"]]
Some(value) == [none |-> FALSE, value |-> value]

\* CacheService._try_json: GET of a missing key gives None, json.loads(None)
\* raises TypeError, and the value is returned as it is; a text json.loads
\* accepts comes back as the value it denotes, any other text as the str.
_try_json(entry) ==
    IF entry = NoKey THEN PyNone
    ELSE IF decodes(entry.text) THEN Some(loads(entry.text))
    ELSE Some(pystr(entry.text))

\* (mutant) a layer that looks at the backend on each call.
cache_usable_reprobed(p) == redis_up

\* Whether a call of process p gets through to Redis: require_redis lets it
\* pass when the client exists, and the command does not raise.
cache_usable(p) == redis_client[p] = "client" /\ redis_up

\* (mutant) a get that is served although the cache is degraded or down.
get_through_outage(p, key) == _try_json(redis[key])

\* CacheService.get: None when degraded or when the command raises.
get(p, key) ==
    IF cache_usable(p) THEN _try_json(redis[key]) ELSE PyNone

\* (mutant) a set that reports success when nothing was written.
set_reports_success(p, key, value, ttl) ==
    [ok    |-> TRUE,
     redis |-> IF cache_usable(p)
                 THEN [redis EXCEPT ![key] =
                         [text |-> IF value.type \in {"dict", "list"}
                                     THEN dumps(value) ELSE encode(value),
                          ttl  |-> ttl]]
                 ELSE redis]

\* CacheService.set: the entries afterwards and the bool returned.
set(p, key, value, ttl) ==
    IF cache_usable(p)
      THEN [ok |-> TRUE,
            redis |-> [redis EXCEPT ![key] =
                         [text |-> IF value.type \in {"dict", "list"}
                                     THEN dumps(value) ELSE encode(value),
                          ttl  |-> ttl]]]
      ELSE [ok |-> FALSE, redis |-> redis]

\* (mutant) a delete that reports success and removes nothing.
delete_keeps_entry(p, key) == [ok |-> TRUE, redis |-> redis]

\* CacheService.delete.
delete(p, key) ==
    IF cache_usable(p)
      THEN [ok |-> TRUE, redis |-> [redis EXCEPT ![key] = NoKey]]
      ELSE [ok |-> FALSE, redis |-> redis]

\* The patterns clear_pattern is called with: every key, the history keys,
\* the keys that are no history keys.
Patterns == {"*", "agent:history:*", "app:*"}

\* redis_client.keys(pattern): the keys stored that the pattern matches.
keys(pattern) ==
    {k \in Keys : /\ redis[k] # NoKey
                  /\ \/ pattern = "*"
                     \/ pattern = "agent:history:*" /\ k \in Hex
                     \/ pattern = "app:*" /\ k \in OtherKeys}

\* (mutant) a clear_pattern that counts the keys it matched when the call
\* did not get through.
clear_pattern_counts(p, pattern) ==
    [count |-> Cardinality(keys(pattern)),
     redis |-> IF cache_usable(p)
                 THEN [k \in Keys |-> IF k \in keys(pattern) THEN NoKey ELSE redis[k]]
                 ELSE redis]

\* CacheService.clear_pattern: the number of keys deleted, 0 when no key
\* matches, when degraded and when a command raises.
clear_pattern(p, pattern) ==
    IF cache_usable(p)
      THEN [count |-> Cardinality(keys(pattern)),
            redis |-> [k \in Keys |-> IF k \in keys(pattern) THEN NoKey ELSE redis[k]]]
      ELSE [count |-> 0, redis |-> redis]

(***************************************************************************)
(* InspectorAgent.  file_sessions[p] is the dict of process p, a function  *)
(* on the keys it holds.  Keys are Python values, so the UUID of a record  *)
(* and the string of it are two keys.                                      *)
(***************************************************************************)
\* {}: a dict with no key.
EmptyDict == [k \in {} |-> 0]

\* d[key] = value and del d[key].
\* (mutant) an assignment that leaves the dict with the one key.
setitem_alone(d, key, value) == [k \in {key} |-> value]

setitem(d, key, value) ==
    [k \in DOMAIN d \cup {key} |-> IF k = key THEN value ELSE d[k]]
delitem(d, key) == [k \in DOMAIN d \ {key} |-> d[k]]

Questions == {"q1", "q2"}
Answers   == {"a1"}

\* (mutant) a load that never finds anything.
_load_chat_history_absent(p, file_id) == <<>>

_load_chat_history(p, file_id) ==
    LET history == get(p, _get_history_key(file_id))
    IN  IF history.none THEN <<>>
        ELSE IF history.value.type = "list" THEN history.value.items
        ELSE history.value

\* (mutant) a save that writes the new exchange only.
_save_chat_history_tail(p, file_id, history) ==
    set(p, _get_history_key(file_id),
        pylist(SubSeq(history, Len(history) - 1, Len(history))), HISTORY_TTL)

_save_chat_history(p, file_id, history) ==
    set(p, _get_history_key(file_id), pylist(history), HISTORY_TTL)

\* (mutant) a new session that is not primed with the persisted history.
session_data_unprimed(p, file) ==
    [history |-> <<>>, chat_engine |-> file.index_id]

\* Lines 39-57: the session built for a file that has none.  The chat
\* engine is written as the collection it was built over; its
\* ChatMemoryBuffer, primed with the same history, is not kept apart.
session_data(p, file) ==
    [history     |-> _load_chat_history(p, file.id),
     chat_engine |-> file.index_id]

\* (mutant) a session rebuilt on every call.
_get_or_create_session_rebuilt(p, file) == session_data(p, file)

_get_or_create_session(p, file) ==
    IF file.id \in DOMAIN file_sessions[p]
      THEN file_sessions[p][file.id]
      ELSE session_data(p, file)

\* (mutant) a query that records the question before it asks.
asked_appends_first(history, question) ==
    Append(history, turn("user", question))

\* Lines 65-66: the session's history list at the time chat() is running;
\* nothing has been appended to it.
asked(history, question) == history

\* (mutant) a query that records the question only.
exchange_user_only(history, question, answer) ==
    Append(history, turn("user", question))

\* Lines 69-78: the two appends that follow a chat() that returned.
exchange(history, question, answer) ==
    Append(Append(history, turn("user", question)),
           turn("assistant", answer))

QueryFaults == {"none", "load_index", "chat"}

\* Lines 39 and 52-56: the two calls of _get_or_create_session that reach
\* an upstream capability, both made before the session is stored (line 59).
ConstructionFaults == {"load_index", "as_chat_engine"}

\* (mutant) a session stored before it is built.
registered_early(sessions, file_id, session, fault) ==
    setitem(sessions, file_id, session)

\* Lines 39-60: the session map when _get_or_create_session is left; the
\* assignment of line 59 is reached only when nothing before it raised.
registered(sessions, file_id, session, fault) ==
    IF fault \in ConstructionFaults
      THEN sessions
      ELSE setitem(sessions, file_id, session)

\* InspectorAgent.query, called by process p with a record of `documents`.
\* load_index and as_chat_engine run only in a call that finds no session,
\* so only such a call can fail in them; a session is stored before chat()
\* is called.
query(p, file, question, fault, answer) ==
    \E session \in {_get_or_create_session(p, file)} :
        /\ file \in documents
        /\ IF file.id \notin DOMAIN file_sessions[p] /\ fault \in ConstructionFaults
             THEN /\ ret' = [op |-> "query",
                             raised |-> IF fault = "load_index"
                                          THEN "OperationalError"
                                          ELSE "ValueError",
                             value |-> [answer |-> ""]]
                  /\ file_sessions' =
                        [file_sessions EXCEPT ![p] =
                            registered(@, file.id, session, fault)]
                  /\ UNCHANGED redis
           ELSE IF fault = "chat"
             THEN /\ file_sessions' =
                        [file_sessions EXCEPT ![p] =
                            setitem(@, file.id,
                                    [session EXCEPT !.history =
                                        asked(session.history, question)])]
                  /\ ret' = [op |-> "query", raised |-> "APIError",
                             value |-> [answer |-> ""]]
                  /\ UNCHANGED redis
           ELSE \E history \in {exchange(session.history, question, answer)} :
                  /\ Len(session.history) < 2 * MaxExchanges
                  /\ file_sessions' =
                        [file_sessions EXCEPT ![p] =
                            setitem(@, file.id,
                                    [session EXCEPT !.history = history])]
                  /\ redis' = _save_chat_history(p, file.id, history).redis
                  /\ ret' = [op |-> "query", raised |-> "none",
                             value |-> [answer |-> answer]]
        /\ UNCHANGED <<registryVars, redis_up, redis_client>>

\* InspectorAgent.clear_session with the file_id the caller passes.
clear_session(p, file_id) ==
    /\ file_sessions' =
          [file_sessions EXCEPT ![p] =
              IF file_id \in DOMAIN @ THEN delitem(@, file_id) ELSE @]
    /\ redis' = delete(p, _get_history_key(file_id)).redis
    /\ ret' = [op |-> "clear_session", raised |-> "none",
               value |-> [success |-> TRUE]]
    /\ UNCHANGED <<registryVars, redis_up, redis_client>>

\* InspectorAgent.get_chat_history.
get_chat_history(p, file_id) ==
    /\ ret' = [op |-> "get_chat_history", raised |-> "none",
               value |-> [history |-> _load_chat_history(p, file_id)]]
    /\ UNCHANGED <<registryVars, agentVars>>

\* The file_id each entry point passes for a record: the interactive loop
\* passes file.id, the tools of the MCP server the string they were given.
file_id_of(p, file) == IF p = "cli" THEN file.id ELSE str(file.id)

\* interactive.py, the "clear" command; mcp_server.py, clear_chat_history.
clear(p, file) ==
    /\ file \in documents
    /\ clear_session(p, file_id_of(p, file))

\* interactive.py chat_interface on entry; mcp_server.py, get_chat_history.
get_history(p, file) ==
    /\ file \in documents
    /\ get_chat_history(p, file_id_of(p, file))

\* A process ends and is started again: a new CacheService, whose client is
\* None when the ping fails, and a new InspectorAgent with an empty dict.
restart(p) ==
    /\ file_sessions' = [file_sessions EXCEPT ![p] = EmptyDict]
    /\ redis_client' =
          [redis_client EXCEPT ![p] = IF redis_up THEN "client" ELSE "None"]
    /\ UNCHANGED <<registryVars, redis_up, redis, ret>>

\* The Redis backend stops answering, and answers again.
redis_down == redis_up /\ redis_up' = FALSE
                /\ UNCHANGED <<registryVars, redis, redis_client, file_sessions, ret>>
redis_back == ~redis_up /\ redis_up' = TRUE
                /\ UNCHANGED <<registryVars, redis, redis_client, file_sessions, ret>>

\* The TTL of an entry runs out.
expire(key) ==
    /\ redis[key] # NoKey
    /\ redis' = [redis EXCEPT ![key] = NoKey]
    /\ UNCHANGED <<registryVars, redis_up, redis_client, file_sessions, ret>>

(***************************************************************************)
(* The state each process starts with.                                     *)
(***************************************************************************)
Init ==
    /\ documents = {}
    /\ index = [c \in Hex |-> NoTable]
    /\ scratch = {}
    /\ redis_up = TRUE
    /\ redis = [k \in Keys |-> NoKey]
    /\ redis_client = [p \in Procs |-> "client"]
    /\ file_sessions = [p \in Procs |-> EmptyDict]
    /\ ret = [op |-> "start"]

(***************************************************************************)
(* The File Registry on its own: every ingest call, with every fault.      *)
(***************************************************************************)
\* The steps of a call that can fail, given what the call will do.
faults_of(file_path) ==
    IF existing(documents, file_path) # NoFile
      THEN Faults
      ELSE Faults \ {"delete_execute", "delete_commit"}

\* The runs of load_file: each input is drawn only where the call reads it
\* (a call that fails before it reads st_size or the pages is one run).
ingest ==
    \E file_path \in InputPaths, stuck \in SUBSET scratch :
      \/ \E exists \in BOOLEAN :
            /\ validate(file_path, exists) # "none"
            /\ load_file(file_path, exists, 10, 1, FALSE, "none", 0, stuck)
      \/ /\ validate(file_path, TRUE) = "none"
         /\ existing(documents, file_path) # NoFile
         /\ load_file(file_path, TRUE, 10, 1, FALSE, "none", 0, stuck)
      \/ /\ validate(file_path, TRUE) = "none"
         /\ existing(documents, file_path) # NoFile
            \/ Hex \ used_index_ids # {}
         /\ \E fault \in faults_of(file_path) :
               \E pdf \in IF fault \in {"index_nodes", "commit", "none"}
                            THEN Contents ELSE {[pages |-> 1, st_size |-> 10]} :
               \E stored \in IF fault = "index_nodes"
                               THEN 0..(pdf.pages - 1) ELSE {0} :
                  load_file(file_path, TRUE, pdf.st_size, pdf.pages, TRUE,
                            fault, stored, stuck)

Next ==
    \/ ingest
    \/ \E file_path \in InputPaths : load_pdf(file_path)
    \/ \E f \in ScratchNames : scratch_write(f)

Spec == Init /\ [][Next]_vars

(***************************************************************************)
(* Properties of the File Registry.                                        *)
(***************************************************************************)

\* The three kinds of call that pass validation, with no step failing.
declines(file_path, stuck) ==
    /\ validate(file_path, TRUE) = "none"
    /\ existing(documents, file_path) # NoFile
    /\ load_file(file_path, TRUE, 10, 1, FALSE, "none", 0, stuck)

overwrites(file_path, pdf, stuck) ==
    /\ validate(file_path, TRUE) = "none"
    /\ existing(documents, file_path) # NoFile
    /\ load_file(file_path, TRUE, pdf.st_size, pdf.pages, TRUE, "none", 0, stuck)

creates(file_path, pdf, stuck) ==
    /\ file_path.suffix \in {".pdf", ".PDF"}
    /\ existing(documents, file_path) = NoFile
    /\ Hex \ used_index_ids # {}
    /\ load_file(file_path, TRUE, pdf.st_size, pdf.pages, TRUE, "none", 0, stuck)

\* C1: in every state, a Document Record exists for a collection id if and
\* only if that collection's index holds built content; no record over an
\* empty index, no index rows without a record.
C1_RecordIffIndex ==
    \A c \in Hex :
        (\E d \in documents : d.index_id.hex = c)
            <=> (index[c] # NoTable /\ index[c] # <<>>)

\* C2: ingesting an existing PDF path that has no record returns the
\* created status and adds exactly one record, for that path, under a
\* collection id in use nowhere before, whatever records exist already.
C2_NewPathIsCreated ==
    [][\A file_path \in InputPaths, pdf \in Contents, stuck \in SUBSET scratch :
          creates(file_path, pdf, stuck) =>
              /\ ret'.raised = "none"
              /\ ret'.value.status = Status.SUCCESS
              /\ \E r \in documents' :
                    /\ r \notin documents
                    /\ documents' = documents \cup {r}
                    /\ r.file_path = absolute(file_path)
                    /\ r.index_id.hex \notin used_index_ids]_vars

C4_OverwriteInPlace ==
    [][ret'.op = "load_file" =>
       \A file_path \in {f \in InputPaths : existing(documents, f) # NoFile} :
       \A pdf \in Contents, stuck \in SUBSET scratch :
          overwrites(file_path, pdf, stuck) =>
              LET old == existing(documents, file_path)
                  new == existing(documents', file_path)
              IN  /\ ret'.raised = "none"
                  /\ ret'.value.status = Status.OVERWRITTEN
                  /\ ret'.value.file_id = str(old.id)
                  /\ new.id = old.id
                  /\ new.index_id = old.index_id
                  /\ new.file_size = pdf.st_size
                  /\ new.file_type = "pdf"
                  /\ index'[old.index_id.hex]
                        = process_pdf(file_path, pdf.pages)
                  /\ \A c \in Hex \ {old.index_id.hex} : index'[c] = index[c]
                  /\ {d \in documents' : d.file_path = absolute(file_path)}
                        = {new}
                  /\ documents' \ {new} = documents \ {old}]_vars

\* A re-index that changed both the size on record and the rows indexed.
C4_Witness ==
    /\ ret.op = "load_file"
    /\ ret.value.status = Status.OVERWRITTEN
    /\ \E d \in documents :
          /\ ret.value.file_id = str(d.id)
          /\ d.file_size = 10
          /\ index[d.index_id.hex] = <<1>>

\* A first-time or confirmed re-ingest in which a step fails.
fails(file_path, stuck) ==
    /\ validate(file_path, TRUE) = "none"
    /\ existing(documents, file_path) # NoFile \/ Hex \ used_index_ids # {}
    /\ \E fault \in faults_of(file_path) \ {"none"} :
          \E pdf \in IF fault \in {"index_nodes", "commit"}
                       THEN Contents ELSE {[pages |-> 1, st_size |-> 10]} :
          \E stored \in IF fault = "index_nodes"
                          THEN 0..(pdf.pages - 1) ELSE {0} :
             load_file(file_path, TRUE, pdf.st_size, pdf.pages, TRUE, fault,
                       stored, stuck)

C6_UniquePathAndIndexId ==
    LET normpath(path) ==
            IF path.dir = "/a/../a" THEN [path EXCEPT !.dir = "/a"] ELSE path
    IN  \A d1 \in documents :
            /\ d1.index_id # None
            /\ d1.index_id.type = "str"
            /\ \A d2 \in documents \ {d1} :
                  /\ d1.file_path # d2.file_path
                  /\ normpath(d1.file_path) # normpath(d2.file_path)
                  /\ d1.index_id # d2.index_id

\* Two records, at two paths, under two collection ids.
C6_Witness == Cardinality(documents) = 2

TheDocument == [dir |-> "/a", stem |-> "x", suffix |-> ".pdf"]

ingest_one == load_file(TheDocument, TRUE, 10, 1, TRUE, "none", 0, {})

NextAgent ==
    \/ ingest_one
    \/ \E p \in Procs, file \in documents, question \in Questions,
          fault \in QueryFaults, answer \in Answers :
          query(p, file, question, fault, answer)
    \/ \E p \in Procs, file \in documents : clear(p, file)
    \/ \E p \in Procs, file \in documents : get_history(p, file)
    \/ \E p \in Procs : restart(p)
    \/ redis_down
    \/ redis_back
    \/ \E key \in Hex : expire(key)

SpecAgent == Init /\ [][NextAgent]_vars

(***************************************************************************)
(* Properties of the Conversational Session Manager.                       *)
(***************************************************************************)
has_session(p, file) == file.id \in DOMAIN file_sessions[p]

\* The history a query of process p works on: that of the session if there
\* is one, else the persisted history a new session is primed with.
history_of(p, file) ==
    IF has_session(p, file)
      THEN file_sessions[p][file.id].history
      ELSE _load_chat_history(p, file.id)

two_turns(question, answer) ==
    << turn("user", question), turn("assistant", answer) >>

\* C8: no process starts with a session; the first successful query for a
\* document creates its session, primed from the persisted history; every
\* later query reuses that session (same engine, history continued from the
\* session, not from the cache); a clear issued by either entry point for
\* the document leaves the process without a session for it.
C8_SessionStateMachine ==
    /\ \A p \in Procs : file_sessions[p] = EmptyDict
    /\ [][\A p \in Procs :
            /\ restart(p) => file_sessions'[p] = EmptyDict
            /\ \A file \in documents :
                 /\ \A q \in Questions, a \in Answers :
                      (~has_session(p, file) /\ query(p, file, q, "none", a))
                        => file_sessions'[p] =
                              setitem(file_sessions[p], file.id,
                                  [history |-> _load_chat_history(p, file.id)
                                                  \o two_turns(q, a),
                                   chat_engine |-> file.index_id])
                 /\ \A q \in Questions, a \in Answers, fault \in QueryFaults :
                      (has_session(p, file) /\ query(p, file, q, fault, a))
                        => /\ DOMAIN file_sessions'[p] = DOMAIN file_sessions[p]
                           /\ LET old == file_sessions[p][file.id]
                                  new == file_sessions'[p][file.id]
                              IN  /\ new.chat_engine = old.chat_engine
                                  /\ new.history \in
                                       {old.history,
                                        old.history \o two_turns(q, a)}
                 /\ clear(p, file) => ~has_session(p, file)']_vars

\* C9 as stated: every successful query extends the document's history by
\* the user turn and the assistant turn and writes the whole of it to the
\* cache under the document's key with TTL 7200.
C9_QueryAlwaysPersists ==
    [][\A p \in Procs, file \in documents, q \in Questions, a \in Answers :
          query(p, file, q, "none", a) =>
              LET after == history_of(p, file) \o two_turns(q, a)
              IN  /\ ret'.raised = "none"
                  /\ has_session(p, file)'
                  /\ file_sessions'[p][file.id].history = after
                  /\ redis'[file.id.hex].ttl = 7200
                  /\ loads(redis'[file.id.hex].text).items = after]_vars

\* C9 (amended): every successful query returns the answer and extends the
\* document's history by the user turn and the assistant turn; it writes
\* the whole of it to the cache under the document's key with TTL 7200 when
\* the process has a cache client and Redis answers, and otherwise leaves
\* the cache as it was.
C9_QueryPersistsWhenCacheUsable ==
    [][\A p \in Procs, file \in documents, q \in Questions, a \in Answers :
          query(p, file, q, "none", a) =>
              LET after == history_of(p, file) \o two_turns(q, a)
              IN  /\ ret'.raised = "none"
                  /\ ret'.value.answer = a
                  /\ has_session(p, file)'
                  /\ file_sessions'[p][file.id].history = after
                  /\ IF redis_client[p] = "client" /\ redis_up
                       THEN /\ redis'[file.id.hex].ttl = 7200
                            /\ loads(redis'[file.id.hex].text).items = after
                            /\ \A k \in Hex \ {file.id.hex} : redis'[k] = redis[k]
                       ELSE redis' = redis]_vars

\* A second exchange answered and persisted after the first.
C9_Witness ==
    /\ ret.op = "query"
    /\ ret.raised = "none"
    /\ \E p \in Procs, d \in documents :
          /\ has_session(p, d)
          /\ Len(file_sessions[p][d.id].history) = 4
          /\ redis[d.id.hex].ttl = 7200
          /\ loads(redis[d.id.hex].text).items = file_sessions[p][d.id].history

persisted(key) ==
    IF redis[key] = NoKey THEN <<>> ELSE loads(redis[key].text).items

is_prefix(h1, h2) ==
    Len(h1) <= Len(h2) /\ SubSeq(h2, 1, Len(h1)) = h1

\* user, assistant, user, assistant, ...
alternates(h) ==
    /\ Len(h) % 2 = 0
    /\ \A i \in 1..Len(h) :
          h[i].role = IF i % 2 = 1 THEN "user" ELSE "assistant"

\* C11 as stated: every persisted history has even length and alternates
\* user/assistant, and a step changes a persisted history only by appending
\* to it (turns kept, in order) or by removing it (clear, TTL expiry).
C11_TurnsNeverRemoved ==
    [][\A key \in Hex :
          /\ alternates(persisted(key))'
          /\ \/ redis'[key] = NoKey
             \/ is_prefix(persisted(key), persisted(key)')]_vars

\* C11 (amended): every persisted history has even length and alternates
\* user/assistant.  A step that changes one removes it (clear, TTL expiry)
\* or is a successful query, which replaces it by the history of the
\* querying session followed by the two new turns: the turns persisted
\* before stay, in order, when that session's history is the persisted one,
\* and are replaced when the session was primed or last saved while the
\* cache held something else or did not answer.
C11_PairsPersisted ==
    [][\A key \in Hex :
          /\ alternates(persisted(key))'
          /\ redis'[key] # redis[key] =>
                \/ redis'[key] = NoKey
                \/ \E p \in Procs, file \in documents,
                      q \in Questions, a \in Answers :
                      /\ _get_history_key(file.id) = key
                      /\ query(p, file, q, "none", a)
                      /\ persisted(key)' = history_of(p, file) \o two_turns(q, a)
                      /\ history_of(p, file) = persisted(key)
                            => is_prefix(persisted(key), persisted(key)')]_vars

\* Two exchanges persisted while the two processes hold sessions whose
\* histories differ.
C11_Witness ==
    \E d \in documents :
        /\ Len(persisted(d.id.hex)) = 4
        /\ has_session("cli", d) /\ has_session("mcp", d)
        /\ file_sessions["cli"][d.id].history # file_sessions["mcp"][d.id].history

NextRestart ==
    \/ ingest_one
    \/ \E file \in documents, question \in Questions,
          fault \in QueryFaults, answer \in Answers :
          query("cli", file, question, fault, answer)
    \/ \E file \in documents : get_history("cli", file)
    \/ restart("cli")
    \/ redis_down
    \/ redis_back
    \/ \E key \in Hex : expire(key)

SpecRestart == Init /\ [][NextRestart]_vars

\* C13 as stated: with no clear, a process restarted after its exchanges
\* reads from get_history the turns its session held, in order, and its
\* first query then persists those turns followed by the two new ones.
C13_RestartReplaysSession ==
    [][\A file \in documents :
          /\ (has_session("cli", file) /\ restart("cli"))
                => _load_chat_history("cli", file.id)'
                      = file_sessions["cli"][file.id].history
          /\ \A q \in Questions, a \in Answers :
                (~has_session("cli", file) /\ query("cli", file, q, "none", a))
                   => persisted(file.id.hex)'
                         = persisted(file.id.hex) \o two_turns(q, a)]_vars

\* C13 (amended): with no clear, when the exchanges of a process were all
\* saved and are still stored (the persisted history is the session's) and
\* Redis answers when the process is restarted, the restarted process has
\* no session and reads from get_history the same turns in the same order;
\* the session its first query builds is primed with the persisted turns,
\* and, the cache answering, that query persists them followed by the two
\* new turns (2N+2 turns).
C13_RestartReplaysPersisted ==
    [][\A file \in documents :
          /\ ( /\ has_session("cli", file)
               /\ persisted(file.id.hex) = file_sessions["cli"][file.id].history
               /\ redis_up
               /\ restart("cli") )
                => /\ ~has_session("cli", file)'
                   /\ _load_chat_history("cli", file.id)'
                         = file_sessions["cli"][file.id].history
          /\ \A q \in Questions, a \in Answers :
                (~has_session("cli", file) /\ query("cli", file, q, "none", a))
                   => /\ file_sessions'["cli"][file.id].history
                            = _load_chat_history("cli", file.id) \o two_turns(q, a)
                      /\ cache_usable("cli")
                            => /\ persisted(file.id.hex)'
                                     = persisted(file.id.hex) \o two_turns(q, a)
                               /\ Len(persisted(file.id.hex)')
                                     = Len(persisted(file.id.hex)) + 2]_vars

\* The process was restarted after two exchanges (it holds no session while
\* four turns are persisted, and nothing but a restart drops a session
\* here), connected to the cache, and get_history returned the four turns.
C13_Witness ==
    /\ ret.op = "get_chat_history" /\ ret.raised = "none"
    /\ redis_up /\ redis_client["cli"] = "client"
    /\ \E d \in documents :
          /\ ~has_session("cli", d)
          /\ Len(persisted(d.id.hex)) = 4
          /\ ret.value.history = persisted(d.id.hex)

\* C14: a clear issued by either entry point leaves the process with no
\* pre-clear turns for the document: the history the next query of that
\* process starts from is empty, so that a successful query then persists
\* exactly its own two turns.
C14_ClearDropsPreClearTurns ==
    [][\A p \in Procs, file \in documents :
          clear(p, file)
             => /\ _get_or_create_session(p, file).history' = <<>>
                /\ \A q \in Questions, a \in Answers :
                      _save_chat_history(p, file.id,
                          exchange(_get_or_create_session(p, file).history,
                                   q, a))'.redis[file.id.hex]
                         \in {redis'[file.id.hex],
                              [text |-> dumps(pylist(two_turns(q, a))),
                               ttl  |-> HISTORY_TTL]}]_vars

\* C15: a clear never raises and reports success, whatever the state (no
\* session and no persisted history included); it leaves the process with
\* no session for the document and, the cache answering, no persisted
\* history; and a second clear right after it would change neither the
\* session map nor the cache.
C15_ClearIdempotentTotal ==
    [][\A p \in Procs, file \in documents :
          clear(p, file)
             => /\ ret'.raised = "none" /\ ret'.value.success
                /\ ~has_session(p, file)'
                /\ cache_usable(p) => persisted(file.id.hex)' = <<>>
                /\ delete(p, _get_history_key(file_id_of(p, file)))'.redis
                      = redis'
                /\ (file_id_of(p, file) \in DOMAIN file_sessions[p])'
                      => delitem(file_sessions[p], file_id_of(p, file))'
                            = file_sessions'[p]]_vars

\* C16: get_history by either entry point changes neither the session map
\* nor any cache entry (nor the registry), never raises, returns the
\* persisted turns when the cache answers, and returns the empty sequence
\* whenever nothing is persisted for the document (never queried, cleared,
\* expired) or the cache is degraded or unreachable.
C16_GetHistoryPureRead ==
    [][\A p \in Procs, file \in documents :
          get_history(p, file)
             => /\ UNCHANGED <<file_sessions, redis, redis_client, registryVars>>
                /\ ret'.op = "get_chat_history" /\ ret'.raised = "none"
                /\ (persisted(file.id.hex) = <<>> \/ ~cache_usable(p))
                      => ret'.value.history = <<>>
                /\ cache_usable(p)
                      => ret'.value.history = persisted(file.id.hex)]_vars

\* get_history answered with the empty sequence while turns of the document
\* are persisted and the asking process holds a session with them: its cache
\* is degraded or Redis is unreachable.
C16_Witness ==
    /\ ret.op = "get_chat_history" /\ ret.value.history = <<>>
    /\ \E d \in documents, p \in Procs :
          /\ Len(persisted(d.id.hex)) = 2
          /\ has_session(p, d)
          /\ ~cache_usable(p)

(***************************************************************************)
(* The Cache Layer of one process called directly, next to the queries of  *)
(* that process: get, set, delete and clear_pattern on a key that is no    *)
(* history key, the layer constructed again at each restart.               *)
(***************************************************************************)
DefaultTTL == 3600

\* The values written: strs (among them texts json.loads accepts), an int,
\* lists and a dict.
Strings == {<<"abc">>, <<"123">>, <<"true">>, <<"[", "1", "]">>}
Values ==
    {pystr(text) : text \in Strings}
       \cup {pyint(123), pylist(<<pyint(1)>>),
             pylist(<<turn("user", "q1")>>), turn("user", "q1")}

cache_get(p, key) ==
    /\ ret' = [op |-> "get", raised |-> "none", value |-> get(p, key)]
    /\ UNCHANGED <<registryVars, agentVars>>

cache_set(p, key, value, ttl) ==
    \E out \in {set(p, key, value, ttl)} :
        /\ redis' = out.redis
        /\ ret' = [op |-> "set", raised |-> "none", value |-> [ok |-> out.ok]]
        /\ UNCHANGED <<registryVars, redis_up, redis_client, file_sessions>>

cache_delete(p, key) ==
    \E out \in {delete(p, key)} :
        /\ redis' = out.redis
        /\ ret' = [op |-> "delete", raised |-> "none", value |-> [ok |-> out.ok]]
        /\ UNCHANGED <<registryVars, redis_up, redis_client, file_sessions>>

cache_clear_pattern(p, pattern) ==
    \E out \in {clear_pattern(p, pattern)} :
        /\ redis' = out.redis
        /\ ret' = [op |-> "clear_pattern", raised |-> "none",
                   value |-> [count |-> out.count]]
        /\ UNCHANGED <<registryVars, redis_up, redis_client, file_sessions>>

NextCache ==
    \/ ingest_one
    \/ \E file \in documents, question \in Questions,
          fault \in QueryFaults, answer \in Answers :
          query("cli", file, question, fault, answer)
    \/ \E key \in OtherKeys : cache_get("cli", key)
    \/ \E key \in OtherKeys, value \in Values :
          cache_set("cli", key, value, DefaultTTL)
    \/ \E key \in OtherKeys : cache_delete("cli", key)
    \/ \E pattern \in Patterns : cache_clear_pattern("cli", pattern)
    \/ restart("cli")
    \/ redis_down
    \/ redis_back
    \/ \E key \in Keys : expire(key)

SpecCache == Init /\ [][NextCache]_vars

\* The neutral default of each operation, as the value the call returns.
returns_default ==
    \/ ret'.op = "get" /\ ret'.value = PyNone
    \/ ret'.op = "set" /\ ret'.value.ok = FALSE
    \/ ret'.op = "delete" /\ ret'.value.ok = FALSE
    \/ ret'.op = "clear_pattern" /\ ret'.value.count = 0

\* A call of the Cache Layer of process p.
cache_call(p) ==
    \/ ret'.op = "get" /\ \E key \in OtherKeys : cache_get(p, key)
    \/ ret'.op = "set" /\ \E key \in OtherKeys, value \in Values :
                             cache_set(p, key, value, DefaultTTL)
    \/ ret'.op = "delete" /\ \E key \in OtherKeys : cache_delete(p, key)
    \/ ret'.op = "clear_pattern" /\ \E pattern \in Patterns :
                                       cache_clear_pattern(p, pattern)

\* C17: a Cache Layer constructed while Redis was unreachable (it holds no
\* client) answers every later get, set, delete and clear_pattern, whether
\* Redis is reachable by then or not, without raising, without a change to
\* any entry, and with the neutral default: None, False, False, 0.
C17_DegradedReturnsDefaults ==
    [][(redis_client["cli"] = "None" /\ cache_call("cli"))
          => /\ ret'.raised = "none"
             /\ returns_default
             /\ redis' = redis
             /\ redis_client' = redis_client]_vars

\* A get of the degraded layer returned None for a key that is stored, the
\* backend being reachable again.
C17_Witness ==
    /\ redis_client["cli"] = "None" /\ redis_up
    /\ redis[0] # NoKey
    /\ ret.op = "get" /\ ret.value = PyNone

\* C18: the mode of a Cache Layer is decided when it is constructed, by
\* whether Redis answers then, and changes at no other step: no get, set,
\* delete or clear_pattern changes it, nor does the backend going away or
\* coming back; and the calls follow the mode, not the backend: a layer in
\* degraded mode does not read a stored key although Redis is reachable, and
\* one that is not degraded reads it whenever Redis answers.
C18_ModeDecidedAtConstruction ==
    [][/\ \A p \in Procs :
            /\ redis_client'[p] # redis_client[p] => restart(p)
            /\ restart(p)
                 => redis_client'[p] = IF redis_up THEN "client" ELSE "None"
       /\ \A key \in OtherKeys :
            (ret'.op = "get" /\ cache_get("cli", key))
               => ret'.value = IF redis_client["cli"] = "None" \/ ~redis_up
                                 THEN PyNone ELSE _try_json(redis[key])]_vars

\* A set of a layer in degraded mode returned False while Redis was
\* reachable, and a layer constructed with Redis reachable exists as well.
C18_Witness ==
    /\ redis_client["cli"] = "None" /\ redis_client["mcp"] = "client"
    /\ redis_up
    /\ ret.op = "set" /\ ret.value.ok = FALSE

\* C19: a Cache Layer constructed with Redis reachable whose command fails
\* (Redis does not answer) returns from get, set, delete and clear_pattern
\* without raising, with the neutral default and no entry changed; a query
\* whose history save fails this way still returns its answer and keeps
\* the exchange in its session.
C19_FailedCallReturnsDefault ==
    [][(redis_client["cli"] = "client" /\ ~redis_up)
          => /\ cache_call("cli")
                  => /\ ret'.raised = "none"
                     /\ returns_default
                     /\ redis' = redis
             /\ \A file \in documents, q \in Questions, a \in Answers :
                   (ret'.op = "query" /\ query("cli", file, q, "none", a))
                      => /\ ~_save_chat_history("cli", file.id,
                                 file_sessions'["cli"][file.id].history).ok
                         /\ ret'.raised = "none"
                         /\ ret'.value.answer = a
                         /\ redis' = redis
                         /\ Len(file_sessions'["cli"][file.id].history) >= 2]_vars

\* A query was answered while the layer held a client and Redis did not
\* answer: the session holds the exchange and nothing is persisted.
C19_Witness ==
    /\ redis_client["cli"] = "client" /\ ~redis_up
    /\ ret.op = "query" /\ ret.raised = "none"
    /\ \E d \in documents :
          /\ has_session("cli", d)
          /\ Len(file_sessions["cli"][d.id].history) = 2
          /\ persisted(d.id.hex) = <<>>

\* C20: with Redis answering, a get that follows set(key, v, ttl) returns a
\* value equal to v: dicts and lists as equal dicts and lists, and every
\* str, the text of a JSON number, literal or array included, as that str.
C20_RoundTrip ==
    cache_usable("cli")
       => \A key \in OtherKeys, value \in Values :
             _try_json(set("cli", key, value, DefaultTTL).redis[key])
                = Some(value)

(***************************************************************************)
(* PDFService.analyze_images_batch, and the image nodes process_pdf builds *)
(* from its result.  An image is written as its position in the list; the *)
(* provider's answer to the call made for a batch is either an exception   *)
(* or the list of ImageAnalysis objects it parsed.                         *)
(***************************************************************************)
MaxImages == 4
BatchSize == 2

AnalysisMissing == "[Analysis missing]"
AnalysisFailed  == "[Image analysis failed]"

ImageAnalysis(image_index, analysis) ==
    [image_index |-> image_index, analysis |-> analysis]

\* What the provider answers for one batch.
Analyses == {"t1", "t2"}
Responses ==
    LET objects == {ImageAnalysis(i, t) : i \in 1..BatchSize, t \in Analyses}
    IN  {[raises |-> TRUE, images |-> <<>>]}
           \cup {[raises |-> FALSE, images |-> s] :
                    s \in UNION {[1..n -> objects] : n \in 0..BatchSize}}

\* chunked(iterable, size): the slices iterable[i:i + size].
chunked(iterable, size) ==
    [b \in 1..((Len(iterable) + size - 1) \div size) |->
        SubSeq(iterable, (b - 1) * size + 1,
               IF b * size < Len(iterable) THEN b * size ELSE Len(iterable))]

\* (mutant) a lookup in which the first object of an index wins.
batch_results_first(images, i, default) ==
    LET at == {k \in 1..Len(images) : images[k].image_index = i}
    IN  IF at = {} THEN default
        ELSE images[CHOOSE k \in at : \A m \in at : k <= m].analysis

\* Lines 99-107: batch_results.get(i, default) on the dict built from the
\* objects of the response; a later object of the same index replaces an
\* earlier one.
batch_results(images, i, default) ==
    LET at == {k \in 1..Len(images) : images[k].image_index = i}
    IN  IF at = {} THEN default
        ELSE images[CHOOSE k \in at : \A m \in at : k >= m].analysis

\* Lines 104-107: the texts appended for one batch.
batch_texts(batch, response) ==
    [i \in 1..Len(batch) |-> batch_results(response.images, i, AnalysisMissing)]

RECURSIVE extend_all(_, _, _)
extend_all(batches, responses, b) ==
    IF b > Len(batches) THEN <<>>
    ELSE batch_texts(batches[b], responses[b])
            \o extend_all(batches, responses, b + 1)

\* The whole method: the texts of every batch in order, or, when the call
\* made for any batch raises, the except branch of line 113.
analyze_images_batch(images_data, batch_size, responses) ==
    LET batches == chunked(images_data, batch_size)
    IN  IF images_data = <<>> THEN <<>>
        ELSE IF \E b \in 1..Len(batches) : responses[b].raises
          THEN [i \in 1..Len(images_data) |-> AnalysisFailed]
        ELSE extend_all(batches, responses, 1)

\* process_pdf, lines 152-162: one node per pair of zip(images, analyses).
image_nodes(images_to_process, analyses) ==
    [k \in 1..(IF Len(images_to_process) < Len(analyses)
                 THEN Len(images_to_process) ELSE Len(analyses)) |->
        [text |-> analyses[k], metadata |-> images_to_process[k]]]

\* process_pdf run on a document with the given images.
process_images(images_to_process, responses) ==
    \E analyses \in {analyze_images_batch(images_to_process, BatchSize, responses)} :
        /\ ret' = [op |-> "analyze_images_batch", raised |-> "none",
                   value |-> [images_data |-> images_to_process,
                              responses   |-> responses,
                              analyses    |-> analyses,
                              all_nodes   |-> image_nodes(images_to_process, analyses)]]
        /\ UNCHANGED <<registryVars, agentVars>>

NextImages ==
    \E K \in 0..MaxImages :
       \E responses \in [1..((K + BatchSize - 1) \div BatchSize) -> Responses] :
          process_images([k \in 1..K |-> k], responses)

SpecImages == Init /\ [][NextImages]_vars

\* The batch an image falls in, and its 1-based index in that batch.
batch_of(i) == ((i - 1) \div BatchSize) + 1
index_in_batch(i) == ((i - 1) % BatchSize) + 1

\* The analysis the provider gave for image i (that of the last object
\* carrying its index), or the default when it gave none.
provided(responses, i, default) ==
    LET images == responses[batch_of(i)].images
        at == {k \in 1..Len(images) : images[k].image_index = index_in_batch(i)}
    IN  IF at = {} THEN default
        ELSE images[CHOOSE k \in at : \A m \in at : m <= k].analysis

\* C21: when the provider answers every batch, with analyses for any subset
\* of the indices of the batch, analyze_images_batch returns one text per
\* image in input order: the provider's analysis of the image when the
\* answer holds one, "[Analysis missing]" otherwise.
C21_OneTextPerImage ==
    (ret.op = "analyze_images_batch"
       /\ \A b \in DOMAIN ret.value.responses : ~ret.value.responses[b].raises)
      => /\ Len(ret.value.analyses) = Len(ret.value.images_data)
         /\ \A i \in 1..Len(ret.value.images_data) :
               ret.value.analyses[i] =
                  provided(ret.value.responses, i, AnalysisMissing)

\* Three images in two batches: the first analysed, the second missing from
\* the answer, the third analysed in the second batch, whose answer holds
\* two objects for the one image.
C21_Witness ==
    /\ ret.op = "analyze_images_batch"
    /\ Len(ret.value.images_data) = 3
    /\ ret.value.analyses = <<"t1", AnalysisMissing, "t2">>
    /\ Len(ret.value.responses[2].images) = 2

\* C22: when the call made for one batch raises, the images of that batch
\* get "[Image analysis failed]" and the images of every other batch keep
\* the texts the provider gave; there is one text and one node per image
\* and nothing is raised.
C22_OnlyFailedBatchGetsSentinel ==
    ret.op = "analyze_images_batch"
      => /\ ret.raised = "none"
         /\ Len(ret.value.analyses) = Len(ret.value.images_data)
         /\ Len(ret.value.all_nodes) = Len(ret.value.images_data)
         /\ \A i \in 1..Len(ret.value.images_data) :
               ret.value.analyses[i] =
                  IF ret.value.responses[batch_of(i)].raises
                    THEN AnalysisFailed
                    ELSE provided(ret.value.responses, i, AnalysisMissing)

\* A call of load_file in which every unlink of the cleanup succeeds.
load_file_called(file_path) ==
    /\ ret'.op = "load_file"
    /\ \E exists \in BOOLEAN, pdf \in Contents, overwrite \in BOOLEAN,
          fault \in Faults, stored \in 0..1 :
          /\ \/ validate(file_path, exists) # "none"
             \/ existing(documents, file_path) # NoFile
             \/ Hex \ used_index_ids # {}
          /\ load_file(file_path, exists, pdf.st_size, pdf.pages, overwrite,
                       fault, stored, {})

\* C23: when load_file returns or raises, whatever its outcome and whatever
\* the scratch directory held when it was called, the scratch directory is
\* empty (no unlink failing).
C23_ScratchEmptyAfterIngest ==
    [][\A file_path \in InputPaths :
          load_file_called(file_path) => scratch' = {}]_vars

(***************************************************************************)
(* Ingestion with its upstream failures next to the queries of one         *)
(* process on the documents it leaves behind.                              *)
(***************************************************************************)
\* load_file on the one path, confirmed, with each failure it can meet.
ingest_upstream ==
    /\ existing(documents, TheDocument) # NoFile \/ Hex \ used_index_ids # {}
    /\ \E fault \in faults_of(TheDocument), pdf \in Contents :
          \E stored \in IF fault = "index_nodes"
                          THEN 0..(pdf.pages - 1) ELSE {0} :
             load_file(TheDocument, TRUE, pdf.st_size, pdf.pages, TRUE,
                       fault, stored, {})

NextUpstream ==
    \/ ingest_upstream
    \/ \E file \in documents, fault \in QueryFaults, answer \in Answers :
          query("cli", file, "q1", fault, answer)
    \/ restart("cli")

SpecUpstream == Init /\ [][NextUpstream]_vars

\* The failures of the vector store and of the embedding provider inside
\* IndexService.delete_index and IndexService.index_nodes.
IndexFaults == {"delete_execute", "delete_commit", "index_nodes"}

\* C24: a failure inside delete_index or index_nodes is raised by load_file
\* to its caller, which gets no result dict; a failure inside load_index is
\* raised by query to its caller, which gets no answer, and no session is
\* stored.
C24_UpstreamFailureRaises ==
    [][/\ \A fault \in IndexFaults \cap faults_of(TheDocument), pdf \in Contents :
            \A stored \in 0..(pdf.pages - 1) :
               ( /\ ret'.op = "load_file"
                 /\ existing(documents, TheDocument) # NoFile
                       \/ Hex \ used_index_ids # {}
                 /\ load_file(TheDocument, TRUE, pdf.st_size, pdf.pages, TRUE,
                              fault, stored, {}) )
                  => /\ ret'.raised # "none"
                     /\ ret'.value = NoValue
       /\ \A file \in documents, a \in Answers :
            ( /\ ret'.op = "query"
              /\ ~has_session("cli", file)
              /\ query("cli", file, "q1", "load_index", a) )
               => /\ ret'.raised # "none"
                  /\ ret'.value.answer = ""
                  /\ ~has_session("cli", file)']_vars

\* A re-index whose build failed at the provider raised APIError, while the
\* record exists and the process holds a session for it.
C24_Witness ==
    /\ ret.op = "load_file" /\ ret.raised = "APIError"
    /\ \E d \in documents : has_session("cli", d)

\* C25: a query on a document whose collection holds no index data (never
\* built, or deleted and not built again) fails in load_index, and the
\* process holds no session for the document afterwards.
C25_MissingIndexFailsLoad ==
    [][\A file \in documents, fault \in QueryFaults, a \in Answers :
          ( /\ ret'.op = "query"
            /\ ~has_session("cli", file)
            /\ index[file.index_id.hex] \in {NoTable, <<>>}
            /\ query("cli", file, "q1", fault, a) )
             => /\ ret'.raised # "none"
                /\ ~has_session("cli", file)']_vars

(***************************************************************************)
(* Two documents, queried and cleared by both processes.                   *)
(***************************************************************************)
OtherDocument == [dir |-> "/a", stem |-> "y", suffix |-> ".PDF"]

ingest_pair ==
    \E file_path \in {TheDocument, OtherDocument} :
        /\ existing(documents, file_path) # NoFile \/ Hex \ used_index_ids # {}
        /\ load_file(file_path, TRUE, 10, 1, TRUE, "none", 0, {})

NextPair ==
    \/ ingest_pair
    \/ \E p \in Procs, file \in documents,
          fault \in QueryFaults, answer \in Answers :
          query(p, file, "q1", fault, answer)
    \/ \E p \in Procs, file \in documents : clear(p, file)
    \/ \E p \in Procs : restart(p)

SpecPair == Init /\ [][NextPair]_vars

\* A query (answered or failed) or a clear by process p on the document.
acts_on(p, file) ==
    \/ /\ ret'.op = "query"
       /\ \E fault \in QueryFaults, answer \in Answers :
             query(p, file, "q1", fault, answer)
    \/ ret'.op = "clear_session" /\ clear(p, file)

\* C26: a query, a failed query or a clear on document A, by either
\* process, leaves for every other document B the session of each process
\* (its presence, its engine, its in-memory history) and the persisted
\* history as they were.
C26_DocumentsDoNotInterfere ==
    [][\A p \in Procs, A \in documents :
          acts_on(p, A)
             => \A B \in documents \ {A} :
                   /\ redis'[_get_history_key(B.id)] = redis[_get_history_key(B.id)]
                   /\ \A other \in Procs :
                         /\ has_session(other, B)' = has_session(other, B)
                         /\ has_session(other, B)
                               => file_sessions'[other][B.id]
                                     = file_sessions[other][B.id]]_vars

\* A clear of one document by the interactive process, which held sessions
\* for both: the other document keeps its session and its persisted turns.
C26_Witness ==
    /\ ret.op = "clear_session"
    /\ \E A \in documents, B \in documents :
          /\ A # B
          /\ ~has_session("cli", A) /\ persisted(A.id.hex) = <<>>
          /\ has_session("cli", B)
          /\ Len(file_sessions["cli"][B.id].history) = 4
          /\ persisted(B.id.hex) = file_sessions["cli"][B.id].history
          /\ has_session("mcp", A)

\* C27: when both processes hold a session for a document and one of them
\* completes a query whose save reaches the cache, the persisted history is
\* from then on the whole in-memory history of that process, whatever the
\* other process had persisted; and a state is reached in which an exchange
\* the other process completed is absent from the persisted history.
C27_LastWriterWins ==
    [][\A p \in Procs, file \in documents, q \in Questions, a \in Answers :
          ( /\ ret'.op = "query"
            /\ has_session("cli", file) /\ has_session("mcp", file)
            /\ cache_usable(p)
            /\ query(p, file, q, "none", a) )
             => /\ persisted(file.id.hex)' = file_sessions'[p][file.id].history
                /\ persisted(file.id.hex)'
                      = file_sessions[p][file.id].history \o two_turns(q, a)
                /\ \A other \in Procs \ {p} :
                      file_sessions'[other] = file_sessions[other]]_vars

\* The interactive process wrote last: the persisted history is its own,
\* and the exchange the other process completed on "q2" is in that
\* process's session but not in the persisted history.
C27_Witness ==
    /\ ret.op = "query" /\ ret.raised = "none"
    /\ \E d \in documents :
          /\ has_session("cli", d) /\ has_session("mcp", d)
          /\ persisted(d.id.hex) = file_sessions["cli"][d.id].history
          /\ Len(persisted(d.id.hex)) = 4
          /\ \E i \in DOMAIN file_sessions["mcp"][d.id].history :
                file_sessions["mcp"][d.id].history[i] = turn("user", "q2")
          /\ \A i \in 1..4 : persisted(d.id.hex)[i] # turn("user", "q2")


(***************************************************************************)
(* The collection a build writes to (pdf_service.py 211-223).              *)
(***************************************************************************)
\* Lines 212 and 216: the collection id handed to index_nodes, the record's
\* on the overwrite path, a fresh one on the create path.
collection_name(file_path) ==
    IF existing(documents, file_path) # NoFile
      THEN existing(documents, file_path).index_id.hex
      ELSE uuid4(used_index_ids).hex

\* Lines 204-223: whether the call gets as far as index_nodes.  The
\* overwrite path gets there only through a delete_index that returned.
builds(file_path, overwrite, fault) ==
    /\ validate(file_path, TRUE) = "none"
    /\ fault # "process_pdf"
    /\ existing(documents, file_path) # NoFile =>
          /\ confirmed(overwrite)
          /\ fault \notin {"delete_execute", "delete_commit"}
          /\ delete_index_ok(index[collection_name(file_path)])
    /\ existing(documents, file_path) = NoFile => Hex \ used_index_ids # {}

\* C28: a build never lands on a collection holding index data.  On the
\* overwrite path the build follows a delete of that collection that
\* succeeded in the same call, so the collection afterwards holds the rows
\* of this build and none of the rows it held before; on the create path
\* the collection id is one no record and no table uses, and the
\* collection afterwards holds the rows of this build.
C28_BuildOnEmptyCollection ==
    [][ret'.op = "load_file" =>
       \A file_path \in {f \in InputPaths : builds(f, TRUE, "none")} :
       \A fault \in {"index_nodes", "commit", "none"} :
       \A pdf \in Contents, stuck \in SUBSET scratch :
       \A stored \in IF fault = "index_nodes" THEN 0..(pdf.pages - 1) ELSE {0} :
          ( /\ builds(file_path, TRUE, fault)
            /\ load_file(file_path, TRUE, pdf.st_size, pdf.pages, TRUE,
                         fault, stored, stuck) )
              => LET c     == collection_name(file_path)
                     nodes == process_pdf(file_path, pdf.pages)
                     n     == IF fault = "index_nodes" THEN stored ELSE Len(nodes)
                 IN  /\ existing(documents, file_path) # NoFile =>
                           /\ index[c] # NoTable
                           /\ delete_index(index[c]) = <<>>
                     /\ existing(documents, file_path) = NoFile =>
                           /\ \A d \in documents : d.index_id.hex # c
                           /\ index[c] = NoTable
                     /\ index'[c] = SubSeq(nodes, 1, n)
                     /\ \A o \in Hex \ {c} : index'[o] = index[o]]_vars

\* An overwrite has rebuilt a collection with a one-page file while the
\* other collection holds a two-page build made on the create path.
C28_Witness ==
    /\ ret.op = "load_file" /\ ret.raised = "none"
    /\ ret.value.status = Status.OVERWRITTEN
    /\ \E d \in documents, e \in documents :
          /\ ret.value.file_id = str(d.id)
          /\ index[d.index_id.hex] = <<1>>
          /\ e # d /\ index[e.index_id.hex] = <<1, 2>>


\* C29: through the load_pdf tool, ingesting a valid PDF path runs the
\* ingest with no confirmation: a path without a record gets a record and
\* the created status, a path with a record is re-indexed and reported as
\* overwritten.
C29_LoadPdfIngests ==
    [][\A file_path \in InputPaths :
          ( /\ ret'.op = "load_pdf"
            /\ validate(file_path, TRUE) = "none"
            /\ Hex \ used_index_ids # {}
            /\ load_pdf(file_path) )
              => IF existing(documents, file_path) = NoFile
                   THEN /\ ret'.value.status = Status.SUCCESS
                        /\ \E r \in documents' \ documents :
                              r.file_path = absolute(file_path)
                   ELSE ret'.value.status = Status.OVERWRITTEN]_vars


\* C30 as stated: while the interactive process holds a session for a
\* document and is the only writer of its history, get_history returns the
\* session's in-memory history, the cache degraded, a save failed or the
\* entry expired notwithstanding.
C30_GetHistoryIsSessionHistory ==
    [][ret'.op = "get_chat_history" =>
       \A file \in documents :
          (has_session("cli", file) /\ get_history("cli", file))
             => ret'.value.history = file_sessions["cli"][file.id].history]_vars

\* C30 (amended): while the interactive process holds a session for a
\* document and is the only writer of its history, get_history returns the
\* turns persisted in the cache when the cache answers: exactly the
\* session's history when the last save of the session succeeded and its
\* entry has not expired (the persisted history is the session's), else
\* whatever is stored; and the empty sequence when the cache is degraded or
\* unreachable.
C30_GetHistoryIsPersisted ==
    [][ret'.op = "get_chat_history" =>
       \A file \in documents :
          (has_session("cli", file) /\ get_history("cli", file))
             => LET history == file_sessions["cli"][file.id].history
                IN  /\ ( /\ cache_usable("cli")
                         /\ persisted(file.id.hex) = history )
                          => ret'.value.history = history
                    /\ cache_usable("cli")
                          => ret'.value.history = persisted(file.id.hex)
                    /\ ~cache_usable("cli") => ret'.value.history = <<>>]_vars

\* get_history returned the four turns of the session of the interactive
\* process, which are the four turns persisted.
C30_Witness ==
    /\ ret.op = "get_chat_history" /\ ret.raised = "none"
    /\ cache_usable("cli")
    /\ \E d \in documents :
          /\ has_session("cli", d)
          /\ Len(file_sessions["cli"][d.id].history) = 4
          /\ ret.value.history = file_sessions["cli"][d.id].history
          /\ persisted(d.id.hex) = ret.value.history


(***************************************************************************)
(* Session construction with every step of it that can fail: the           *)
(* interactive process queries the document and is restarted, while Redis  *)
(* comes and goes and entries expire.                                      *)
(***************************************************************************)
NextSession ==
    \/ ingest_one
    \/ \E file \in documents, question \in Questions,
          fault \in QueryFaults \cup ConstructionFaults, answer \in Answers :
          query("cli", file, question, fault, answer)
    \/ restart("cli")
    \/ redis_down
    \/ redis_back
    \/ \E key \in Hex : expire(key)

SpecSession == Init /\ [][NextSession]_vars

\* C31: a first query that fails in load_index or in as_chat_engine raises
\* and leaves the session map without an entry for the document (and the
\* cache as it was); a query that then finds no session builds one anew,
\* over the document's collection and primed with the history read from the
\* cache at that moment, and registers it.
C31_SessionRegisteredWhenBuilt ==
    [][ret'.op = "query" =>
       \A file \in documents, q \in Questions, a \in Answers :
          /\ \A fault \in ConstructionFaults :
                (~has_session("cli", file) /\ query("cli", file, q, fault, a))
                   => /\ ret'.raised # "none"
                      /\ ~has_session("cli", file)'
                      /\ UNCHANGED <<file_sessions, redis>>
          /\ (~has_session("cli", file) /\ query("cli", file, q, "none", a))
                => /\ has_session("cli", file)'
                   /\ file_sessions'["cli"][file.id].chat_engine = file.index_id
                   /\ file_sessions'["cli"][file.id].history
                         = _load_chat_history("cli", file.id) \o two_turns(q, a)]_vars

\* The chat engine could not be built for a document whose history holds
\* two persisted turns: the call raised and no session is registered.
C31_Witness ==
    /\ ret.op = "query" /\ ret.raised = "ValueError"
    /\ \E d \in documents :
          /\ ~has_session("cli", d)
          /\ Len(persisted(d.id.hex)) = 2


(***************************************************************************)
(* Ingestion of one document, with every outcome, next to the queries of   *)
(* the two processes on it, while entries of the cache expire.            *)
(***************************************************************************)
\* load_file on the one path: not found, declined, or confirmed with each
\* failure it can meet.
ingest_document ==
    \/ load_file(TheDocument, FALSE, 10, 1, FALSE, "none", 0, {})
    \/ /\ existing(documents, TheDocument) # NoFile
       /\ load_file(TheDocument, TRUE, 10, 1, FALSE, "none", 0, {})
    \/ ingest_upstream

NextReindex ==
    \/ ingest_document
    \/ \E p \in Procs, file \in documents, question \in Questions,
          answer \in Answers :
          query(p, file, question, "none", answer)
    \/ \E key \in Hex : expire(key)

SpecReindex == Init /\ [][NextReindex]_vars

\* C32: a call of load_file, whatever its outcome, leaves every persisted
\* history, every session of every process and the cache connection as they
\* were; and a query of a process that holds a session for the document,
\* re-indexed since or not, works on that session: the session keeps its
\* chat engine and its history grows by the two new turns.
C32_IngestLeavesConversations ==
    [][/\ ( \/ load_file_called(TheDocument)
             \/ /\ ret'.op = "load_file"
                /\ <<ret, registryVars>>' # <<ret, registryVars>> ) =>
            /\ UNCHANGED agentVars
            /\ \A p \in Procs, file \in documents :
                  /\ persisted(file.id.hex)' = persisted(file.id.hex)
                  /\ has_session(p, file) =>
                        file_sessions'[p][file.id] = file_sessions[p][file.id]
       /\ ret'.op = "query" =>
            \A p \in Procs, file \in documents, q \in Questions, a \in Answers :
               (has_session(p, file) /\ query(p, file, q, "none", a))
                  => /\ file_sessions'[p][file.id].chat_engine
                           = file_sessions[p][file.id].chat_engine
                     /\ file_sessions'[p][file.id].history
                           = file_sessions[p][file.id].history \o two_turns(q, a)]_vars

\* A re-index has just returned overwritten for a document of which the
\* interactive process holds a session of two turns, the same two turns
\* being persisted.
C32_Witness ==
    /\ ret.op = "load_file" /\ ret.raised = "none"
    /\ ret.value.status = Status.OVERWRITTEN
    /\ \E d \in documents :
          /\ ret.value.file_id = str(d.id)
          /\ has_session("cli", d)
          /\ Len(file_sessions["cli"][d.id].history) = 2
          /\ persisted(d.id.hex) = file_sessions["cli"][d.id].history

====
